---- MODULE Spec2Model ----
(***************************************************************************)
(* Model of the python-ui package: the Parameter description               *)
(* (parameter.py), the dual-mode front end GenericUI (genui.py) and the    *)
(* threaded tkinter form GenericGUI (gengui.py).                           *)
(*                                                                         *)
(* Python strings are sequences of one-character strings.  Python values   *)
(* of mixed type (None, bool, str, float, list of str) are records with   *)
(* the same fields, so that any two of them can be compared.               *)
(***************************************************************************)
EXTENDS Integers, Sequences, FiniteSets, TLC

\* ------------------------------------------------------------------------
\* Bounds of the model
\* ------------------------------------------------------------------------

\* number of times the user presses "Run" in one behaviour of the form
MaxConfirms == 2

\* number of Parameter(...) constructions in one process
MaxParams == 3

\* number of set_progress calls in one behaviour
MaxCalls == 3

\* number of fragments written to the redirected streams in one behaviour
MaxFrags == 4

\* number of invocation arguments after the script's name
MaxArgv == 2

\* length of the raw text handed to a validator of the form
MaxRaw == 3

\* ------------------------------------------------------------------------
\* State
\* ------------------------------------------------------------------------

VARIABLES
    parameters,     \* the list of Parameters of the one mode load_gui builds
    value,          \* value[i]: parameters[i].value
    entries,        \* entries[i]: the widget of parameter i (text, var, style)
    should_quit,    \* GenericGUI.should_quit
    event,          \* GenericGUI.event: the flag of the threading.Event
    disabled,       \* the state set_disabled left on the root window's widgets
    log_window,     \* whether GenericGUI.log_window is a window (not None)
    gpc,            \* position of the form's thread (GenericGUI.run)
    ci,             \* confirm: the loop index i
    completed,      \* confirm: the local completed
    streams,        \* the write attribute of the stdout and stderr objects
    sys_std,        \* the objects sys.stdout and sys.stderr refer to
    old_std,        \* run: the locals old_stdout and old_stderr
    cpc,            \* position of the caller's thread (GenericUI.load_gui)
    ck,             \* load_gui: index of the parameter being read into args
    args,           \* load_gui: the dictionary args, by parameter name
    closed,         \* history: on_quit has run
    nConfirms,      \* history: number of confirm calls
    nSubmit,        \* history: number of confirms that found completed true
    nCalls,         \* history: number of invocations of self.main
    attempt,        \* history: what confirm did, while it is the last event handled
    in_a_row,       \* history: successful confirms since the last edit of a field
    calls_args,     \* history: the args of every invocation of self.main
    escaped,        \* history: the Escape key was pressed on the root window
    touched         \* history: the fields the user changed since the form was built

VARIABLES
    used_flags,     \* Parameter.used_flags
    constructed,    \* the Parameters whose construction returned
    last            \* history: the last call of Parameter(...) and how it ended

VARIABLES
    processing,     \* GenericGUI.processing
    progress,       \* the IntVar GenericGUI.progress
    bar_placed,     \* whether progress_bar is placed (visible) in the log window
    calls           \* history: the percentages set_progress was called with

VARIABLES
    cli_params,     \* GenericUI.parameters, the list handed to the CLI
    argv,           \* argv[i]: what the command line holds for parameter i
    parser,         \* the argument definitions add_argument accepted so far
    namespace,      \* the Namespace parse_args fills, by dest
    cli_pc,         \* position in load_cli
    cli_i,          \* index of the parameter being added or parsed
    exit_status,    \* the exit status of the process, -1 while it runs
    main_calls,     \* number of invocations of self.main
    main_args       \* the keyword arguments of the invocation of self.main

VARIABLES
    msg_buffer,     \* GenericGUI.msg_buffer
    carriage_return,\* GenericGUI.carriage_return
    log_list,       \* the entries of the Listbox GenericGUI.log_list
    log_open,       \* whether log_list is a live widget (its window is open)
    fragments,      \* history: the fragments log received since the window opened or closed
    last_commit,    \* history: the fragment that made the last entry of log_list
    nFrags          \* history: number of calls of log

VARIABLES
    sys_argv,       \* sys.argv[1:]
    script,         \* run: the local script, os.path.basename(sys.argv[0])
    proc_parent,    \* the name of the parent process, None when there is none
    proc_grandparent, \* the name of the parent's parent, None when there is none
    exe,            \* run: the local exe
    parent_exe,     \* run: the local parent_exe
    load_ui,        \* run: the local load_ui
    sel_pc,         \* position in GenericUI.run
    surface,        \* history: the surface run entered
    argv0           \* history: sys.argv[1:] when run was entered

VARIABLES
    v_param,        \* the Parameter whose verify load_gui wrapped
    v_raw,          \* the raw text of its field, entry.get()
    v_result,       \* what param.verify(entry.get()) returned or that it raised
    v_pc            \* whether verify was called

guiVars ==
    <<parameters, value, entries, should_quit, event, disabled, log_window, gpc, ci,
      completed, streams, sys_std, old_std, cpc, ck, args, closed, nConfirms,
      nSubmit, nCalls, attempt, in_a_row, calls_args, escaped, touched>>

cliVars ==
    <<cli_params, argv, parser, namespace, cli_pc, cli_i, exit_status, main_calls,
      main_args>>

regVars == <<used_flags, constructed, last>>

progVars == <<processing, progress, bar_placed, calls>>

logVars ==
    <<msg_buffer, carriage_return, log_list, log_open, fragments, last_commit, nFrags>>

verVars == <<v_param, v_raw, v_result, v_pc>>

selVars ==
    <<sys_argv, script, proc_parent, proc_grandparent, exe, parent_exe, load_ui,
      sel_pc, surface, argv0>>

\* what the steps of one surface leave alone
NotGui == UNCHANGED <<cliVars, regVars, progVars, logVars, selVars, verVars>>

NotCli == UNCHANGED <<guiVars, regVars, progVars, logVars, selVars, verVars>>

NotReg == UNCHANGED <<guiVars, cliVars, progVars, logVars, selVars, verVars>>

NotProg == UNCHANGED <<guiVars, cliVars, regVars, logVars, selVars, verVars>>

NotLog == UNCHANGED <<guiVars, cliVars, regVars, progVars, selVars, verVars>>

NotSel == UNCHANGED <<guiVars, cliVars, regVars, progVars, logVars, verVars>>

NotVer == UNCHANGED <<guiVars, cliVars, regVars, progVars, logVars, selVars>>

\* ------------------------------------------------------------------------
\* Python values
\* ------------------------------------------------------------------------

NoneV == [t |-> "none", s |-> <<>>, l |-> <<>>, b |-> FALSE]

StrV(s) == [t |-> "str", s |-> s, l |-> <<>>, b |-> FALSE]

ListV(l) == [t |-> "list", s |-> <<>>, l |-> l, b |-> FALSE]

BoolV(b) == [t |-> "bool", s |-> <<>>, l |-> <<>>, b |-> b]

\* a float, kept as its digits
FloatV(s) == [t |-> "float", s |-> s, l |-> <<>>, b |-> FALSE]

\* Python truthiness of a value (used by "x or y" and "not x")
Truthy(v) ==
    CASE v.t = "none" -> FALSE
      [] v.t = "bool" -> v.b
      [] v.t = "str" -> v.s # <<>>
      [] v.t = "list" -> v.l # <<>>
      [] v.t = "float" -> \E i \in 1..Len(v.s) : v.s[i] # "0"

\* Python "value == text" where text is a str: a non-str never equals a str
PyEqStr(v, text) == v.t = "str" /\ v.s = text

\* d[k] = v on a dictionary d
DictSet(d, k, v) == [n \in DOMAIN d \cup {k} |-> IF n = k THEN v ELSE d[n]]

\* outcome of calling a function that may raise
Ok(v) == [ok |-> TRUE, val |-> v]

Raise == [ok |-> FALSE, val |-> NoneV]

\* ------------------------------------------------------------------------
\* Program constants
\* ------------------------------------------------------------------------

\* GenericGUI.help_text: the placeholder guidance text per widget kind
help_text ==
    [dir |-> <<"P","i","c","k"," ","a"," ","d","i","r","e","c","t","o","r","y",".",".",".">>,
     file |-> <<"P","i","c","k"," ","a"," ","f","i","l","e",".",".",".">>,
     fileordir |-> <<"P","i","c","k"," ","a"," ","f","i","l","e"," ","o","r"," ",
                     "d","i","r","e","c","t","o","r","y",".",".",".">>,
     text |-> <<"E","n","t","e","r",".",".",".">>,
     pass |-> <<>>,
     box |-> FALSE]

\* the widget kinds create_widget supports with an Entry
EntryKinds == {"dir", "file", "fileordir", "text", "pass"}

\* all supported widget kinds
WidgetKinds == EntryKinds \cup {"box"}

\* the str members of help_text.values()
HelpTexts == {help_text[w] : w \in EntryKinds}

\* ------------------------------------------------------------------------
\* String functions
\* ------------------------------------------------------------------------

Whitespace == {" ", "\t", "\n", "\r"}

RECURSIVE LStrip(_)
LStrip(s) ==
    IF s # <<>> /\ Head(s) \in Whitespace THEN LStrip(Tail(s)) ELSE s

RECURSIVE RStrip(_)
RStrip(s) ==
    IF s # <<>> /\ s[Len(s)] \in Whitespace
    THEN RStrip(SubSeq(s, 1, Len(s) - 1))
    ELSE s

\* str.strip()
Strip(s) == RStrip(LStrip(s))

\* str.split(','): the pieces between the commas; "" gives [""]
RECURSIVE SplitAcc(_, _, _)
SplitAcc(s, cur, acc) ==
    IF s = <<>> THEN Append(acc, cur)
    ELSE IF Head(s) = "," THEN SplitAcc(Tail(s), <<>>, Append(acc, cur))
    ELSE SplitAcc(Tail(s), Append(cur, Head(s)), acc)

Split(s) == SplitAcc(s, <<>>, <<>>)

UpperChar(c) ==
    CASE c = "a" -> "A"
      [] c = "b" -> "B"
      [] c = "c" -> "C"
      [] c = "d" -> "D"
      [] c = "x" -> "X"
      [] OTHER -> c

\* str.upper() on the alphabet of the model
Upper(s) == [i \in 1..Len(s) |-> UpperChar(s[i])]

\* ------------------------------------------------------------------------
\* Validators: the verify argument of Parameter is supplied by the script
\* author; the model draws it from a small set of one-argument functions.
\*   identity : the default, lambda value: value
\*   reject_x : raises ValueError on "x", returns the value otherwise
\*   upper    : returns value.upper()
\*   float    : the bare type float
\* ------------------------------------------------------------------------

Validators == {"identity", "reject_x", "upper", "float"}

\* the validators whose type(...).__name__ is 'type'
BareTypes == {"float"}

\* float(raw): accepts the digit strings of the model, raises otherwise
FloatCall(raw) ==
    IF raw # <<>> /\ \A i \in 1..Len(raw) : raw[i] \in {"0", "1"}
    THEN Ok(FloatV(raw))
    ELSE Raise

\* calling the function verify on the str raw
CallVerify(verify, raw) ==
    CASE verify = "identity" -> Ok(StrV(raw))
      [] verify = "reject_x" -> IF raw = <<"x">> THEN Raise ELSE Ok(StrV(raw))
      [] verify = "upper" -> Ok(StrV(Upper(raw)))
      [] verify = "float" -> FloatCall(raw)

\* ------------------------------------------------------------------------
\* Parameter (parameter.py)
\* ------------------------------------------------------------------------

\* None where Python has a str or None
NoneS == <<"None">>

\* the fields Parameter.__init__ computes from its arguments
Parameter(name, short, long, meta, nargs, default, verify, widget) ==
    [name |-> name,
     short |-> IF short # NoneS THEN <<"-">> \o short ELSE NoneS,
     long |-> IF long # NoneS THEN <<"-", "-">> \o long ELSE NoneS,
     meta |-> IF long # name
              THEN (IF meta # NoneS /\ meta # <<>> THEN meta ELSE name)
              ELSE NoneS,
     nargs |-> nargs,
     default |-> default,
     value |-> default,
     widget |-> IF nargs # "0" THEN widget ELSE "box",
     verify |-> verify]

\* ------------------------------------------------------------------------
\* The form surface: GenericUI.load_gui and GenericGUI
\* ------------------------------------------------------------------------

\* type_check(type_name)(value) of load_gui: the field's raw text is a str
TypeCheck(type_name, raw) ==
    IF "str" # type_name THEN Raise ELSE Ok(StrV(raw))

\* the scalar validator load_gui ends up with
GuiScalar(verify, raw) ==
    IF verify \in BareTypes THEN TypeCheck(verify, raw) ELSE CallVerify(verify, raw)

\* [value.strip() for value in values.split(',')]
Pieces(raw) == [i \in 1..Len(Split(raw)) |-> Strip(Split(raw)[i])]

\* ListWrap with the bug of pieces that keep their surrounding whitespace
ListWrap_NoStrip(verify, raw) ==
    LET checked == [i \in 1..Len(Split(raw)) |-> GuiScalar(verify, Split(raw)[i])]
    IN IF \E i \in 1..Len(checked) : ~checked[i].ok
       THEN Raise
       ELSE Ok(ListV([i \in 1..Len(checked) |-> checked[i].val.s]))

\* list_wrap(func)(values) of load_gui: the first failing piece raises
ListWrap(verify, raw) ==
    LET checked == [i \in 1..Len(Pieces(raw)) |-> GuiScalar(verify, Pieces(raw)[i])]
    IN IF \E i \in 1..Len(checked) : ~checked[i].ok
       THEN Raise
       ELSE Ok(ListV([i \in 1..Len(checked) |-> checked[i].val.s]))

\* parameter.verify as load_gui leaves it, applied to the raw text
GuiVerify(param, raw) ==
    IF param.nargs \notin {"0", "1", "?"}
    THEN ListWrap(param.verify, raw)
    ELSE GuiScalar(param.verify, raw)

\* the parameter lists a script hands to GenericUI in the model
GuiParams1 ==
    << Parameter(<<"p">>, NoneS, NoneS, NoneS, "1", NoneV, "reject_x", "text"),
       Parameter(<<"r">>, NoneS, NoneS, NoneS, "0", BoolV(FALSE), "identity", "text") >>

GuiParams2 ==
    << Parameter(<<"q">>, NoneS, NoneS, NoneS, "1", NoneV, "reject_x", "pass"),
       Parameter(<<"f">>, NoneS, NoneS, NoneS, "*", NoneV, "upper", "fileordir") >>

\* a list with a widget kind create_widget does not know
GuiParams3 ==
    << Parameter(<<"w">>, NoneS, NoneS, NoneS, "1", NoneV, "identity", "slider") >>

\* a boolean flag that is set unless the user says otherwise
GuiParams4 ==
    << Parameter(<<"t">>, <<"t">>, <<"t">>, NoneS, "0", BoolV(TRUE), "identity", "text") >>

GuiParamLists == {GuiParams1, GuiParams2, GuiParams3, GuiParams4}

\* what the user can type into a field
UserTexts == {<<"a">>, <<"x">>}

\* what a native pick dialog can return ("" when cancelled)
Picks == {<<>>, <<"a">>}

NParams == Len(parameters)

\* confirm has not run yet
NoAttempt ==
    [done |-> FALSE, visited |-> <<>>, failed |-> {}, proceeded |-> FALSE,
     released |-> FALSE, before |-> <<>>]

GuiInit ==
    /\ parameters \in GuiParamLists
    /\ value = [i \in 1..Len(parameters) |-> parameters[i].value]
    /\ entries = <<>>
    /\ should_quit = FALSE
    /\ event = FALSE
    /\ disabled = FALSE
    /\ log_window = FALSE
    /\ gpc = "start"
    /\ ci = 0
    /\ completed = TRUE
    /\ streams = [stdout |-> "original", stderr |-> "original"]
    /\ sys_std = [stdout |-> "stdout", stderr |-> "stderr"]
    /\ old_std = [stdout |-> "unset", stderr |-> "unset"]
    /\ cpc = "get_input"
    /\ ck = 0
    /\ args = <<>>
    /\ closed = FALSE
    /\ nConfirms = 0
    /\ nSubmit = 0
    /\ nCalls = 0
    /\ attempt = NoAttempt
    /\ in_a_row = 0
    /\ calls_args = <<>>
    /\ escaped = FALSE
    /\ touched = {}

\* ---- the form's thread: GenericGUI.run --------------------------------

\* create_widget: the widget appended to entries for one parameter
CreateWidget(param) ==
    CASE param.widget = "box" ->
            [text |-> <<>>, var |-> help_text["box"], style |-> "TCheckbutton"]
      [] param.widget \in {"dir", "file", "fileordir"} ->
            [text |-> help_text[param.widget], var |-> FALSE, style |-> "TEntry"]
      [] param.widget = "text" ->
            [text |-> IF Truthy(param.value) THEN param.value.s ELSE help_text["text"],
             var |-> FALSE, style |-> "TEntry"]
      [] param.widget = "pass" ->
            [text |-> help_text["pass"], var |-> FALSE, style |-> "TEntry"]
      [] OTHER ->
            [text |-> <<>>, var |-> FALSE, style |-> "TEntry"]

\* run up to mainloop: init_ui builds the widgets; an unsupported widget kind
\* sets should_quit and run returns; otherwise the write attributes of
\* sys.stdout and sys.stderr are replaced by self.log and mainloop starts
RunInit ==
    /\ gpc = "start"
    /\ entries' = [i \in 1..NParams |-> CreateWidget(parameters[i])]
    /\ IF \E i \in 1..NParams : parameters[i].widget \notin WidgetKinds
       THEN /\ should_quit' = TRUE
            /\ gpc' = "done"
            /\ UNCHANGED <<streams, old_std>>
       ELSE /\ old_std' = sys_std
            /\ streams' = [o \in DOMAIN streams |->
                              IF o \in {sys_std.stdout, sys_std.stderr}
                              THEN "log" ELSE streams[o]]
            /\ gpc' = "loop"
            /\ UNCHANGED should_quit
    /\ UNCHANGED <<parameters, value, event, disabled, log_window, ci, completed,
                   sys_std, cpc, ck, args, closed, nConfirms, nSubmit, nCalls,
                   attempt, in_a_row, calls_args, escaped, touched>>
    /\ NotGui

\* what every event handler but confirm, on_quit and run leaves alone
UserFrame ==
    /\ attempt' = NoAttempt
    /\ in_a_row' = IF entries' # entries THEN 0 ELSE in_a_row
    /\ touched' = touched \cup {i \in 1..NParams : entries'[i] # entries[i]}
    /\ UNCHANGED <<parameters, value, should_quit, event, gpc, ci, completed, streams, sys_std,
                   old_std, cpc, ck, args, closed, nConfirms, nSubmit, nCalls,
                   calls_args, escaped>>

\* the widgets of the root window take input
Enabled == gpc = "loop" /\ ~disabled

\* set_entry(entry, text)
SetEntry(i, text) == entries' = [entries EXCEPT ![i].text = text]

\* the user types a text into an Entry: a text of his own, or the placeholder of
\* the field again
TypeText(i, text) ==
    /\ Enabled
    /\ parameters[i].widget \in EntryKinds
    /\ text \in UserTexts \cup {help_text[parameters[i].widget]}
    /\ SetEntry(i, text)
    /\ UNCHANGED <<disabled, log_window>>
    /\ UserFrame
    /\ NotGui

\* handle_click: a click on an Entry that holds a placeholder empties it
HandleClick(i) ==
    /\ Enabled
    /\ parameters[i].widget \in EntryKinds
    /\ IF entries[i].text \in HelpTexts THEN SetEntry(i, <<>>) ELSE UNCHANGED entries
    /\ UNCHANGED <<disabled, log_window>>
    /\ UserFrame
    /\ NotGui

\* ask_directory: a non-empty selection overwrites the field
AskDirectory(i, dir_name) ==
    /\ Enabled
    /\ parameters[i].widget \in {"dir", "fileordir"}
    /\ IF dir_name # <<>> THEN SetEntry(i, dir_name) ELSE UNCHANGED entries
    /\ UNCHANGED <<disabled, log_window>>
    /\ UserFrame
    /\ NotGui

\* ask_file: a non-empty selection overwrites the field
AskFile(i, file_name) ==
    /\ Enabled
    /\ parameters[i].widget \in {"file", "fileordir"}
    /\ IF file_name # <<>> THEN SetEntry(i, file_name) ELSE UNCHANGED entries
    /\ UNCHANGED <<disabled, log_window>>
    /\ UserFrame
    /\ NotGui

\* the user toggles a Checkbutton
Toggle(i) ==
    /\ Enabled
    /\ parameters[i].widget = "box"
    /\ entries' = [entries EXCEPT ![i].var = ~entries[i].var]
    /\ UNCHANGED <<disabled, log_window>>
    /\ UserFrame
    /\ NotGui

\* OnLogQuit with the bug of a log window whose close also signals the caller
OnLogQuit_Signals ==
    /\ gpc = "loop"
    /\ log_window
    /\ log_window' = FALSE
    /\ disabled' = FALSE
    /\ event' = TRUE
    /\ attempt' = NoAttempt
    /\ UNCHANGED <<parameters, value, entries, should_quit, gpc, ci, completed,
                   streams, sys_std, old_std, cpc, ck, args, closed, nConfirms,
                   nSubmit, nCalls, in_a_row, calls_args, escaped, touched>>
    /\ NotGui

\* on_log_quit: the log window is destroyed and the inputs are enabled again
OnLogQuit ==
    /\ gpc = "loop"
    /\ log_window
    /\ log_window' = FALSE
    /\ disabled' = FALSE
    /\ UNCHANGED entries
    /\ UserFrame
    /\ NotGui

\* confirm, entered by the Run button
ConfirmStart ==
    /\ Enabled
    /\ nConfirms < MaxConfirms
    /\ gpc' = "confirm"
    /\ completed' = TRUE
    /\ ci' = 1
    /\ nConfirms' = nConfirms + 1
    /\ attempt' = [NoAttempt EXCEPT !.before = value]
    /\ UNCHANGED <<parameters, value, entries, should_quit, event, disabled,
                   log_window, streams, sys_std, old_std, cpc, ck, args, closed,
                   nSubmit, nCalls, in_a_row, calls_args, escaped, touched>>
    /\ NotGui

\* ConfirmField with the bug "completed = True" on a field that validates:
\* the last Entry decides alone
ConfirmField_LastWins ==
    /\ gpc = "confirm"
    /\ ci <= NParams
    /\ LET param == parameters[ci]
           entry == entries[ci]
           res == GuiVerify(param, entry.text)
       IN IF param.widget = "box"
          THEN /\ value' = [value EXCEPT ![ci] = BoolV(entry.var)]
               /\ UNCHANGED <<entries, completed>>
               /\ attempt' = [attempt EXCEPT !.visited = Append(@, ci)]
          ELSE IF res.ok
          THEN /\ IF ~PyEqStr(res.val, help_text[param.widget])
                  THEN /\ entries' = [entries EXCEPT ![ci].style = "TEntry"]
                       /\ value' = [value EXCEPT ![ci] = res.val]
                  ELSE UNCHANGED <<entries, value>>
               /\ completed' = TRUE
               /\ attempt' = [attempt EXCEPT !.visited = Append(@, ci)]
          ELSE /\ entries' = [entries EXCEPT ![ci].style = "Custom.TEntry"]
               /\ completed' = FALSE
               /\ UNCHANGED value
               /\ attempt' = [attempt EXCEPT !.visited = Append(@, ci),
                                             !.failed = @ \cup {ci}]
    /\ ci' = ci + 1
    /\ UNCHANGED <<parameters, should_quit, event, disabled, log_window, gpc,
                   streams, sys_std, old_std, cpc, ck, args, closed, nConfirms,
                   nSubmit, nCalls, in_a_row, calls_args, escaped, touched>>
    /\ NotGui

\* confirm: one iteration of the loop over the parameters of the mode
ConfirmField ==
    /\ gpc = "confirm"
    /\ ci <= NParams
    /\ LET param == parameters[ci]
           entry == entries[ci]
           res == GuiVerify(param, entry.text)
       IN IF param.widget = "box"
          THEN /\ value' = [value EXCEPT ![ci] = BoolV(entry.var)]
               /\ UNCHANGED <<entries, completed>>
               /\ attempt' = [attempt EXCEPT !.visited = Append(@, ci)]
          ELSE IF res.ok
          THEN /\ IF ~PyEqStr(res.val, help_text[param.widget])
                  THEN /\ entries' = [entries EXCEPT ![ci].style = "TEntry"]
                       /\ value' = [value EXCEPT ![ci] = res.val]
                  ELSE UNCHANGED <<entries, value>>
               /\ UNCHANGED completed
               /\ attempt' = [attempt EXCEPT !.visited = Append(@, ci)]
          ELSE /\ entries' = [entries EXCEPT ![ci].style = "Custom.TEntry"]
               /\ completed' = FALSE
               /\ UNCHANGED value
               /\ attempt' = [attempt EXCEPT !.visited = Append(@, ci),
                                             !.failed = @ \cup {ci}]
    /\ ci' = ci + 1
    /\ UNCHANGED <<parameters, should_quit, event, disabled, log_window, gpc,
                   streams, sys_std, old_std, cpc, ck, args, closed, nConfirms,
                   nSubmit, nCalls, in_a_row, calls_args, escaped, touched>>
    /\ NotGui

\* confirm after the loop: a completed submission disables the inputs, opens
\* the log window and sets the event
ConfirmEnd ==
    /\ gpc = "confirm"
    /\ ci > NParams
    /\ IF completed
       THEN /\ disabled' = TRUE
            /\ log_window' = TRUE
            /\ event' = TRUE
            /\ nSubmit' = nSubmit + 1
            /\ in_a_row' = in_a_row + 1
            /\ attempt' = [attempt EXCEPT !.done = TRUE, !.proceeded = TRUE,
                                          !.released = TRUE]
       ELSE /\ UNCHANGED <<disabled, log_window, event, nSubmit, in_a_row>>
            /\ attempt' = [attempt EXCEPT !.done = TRUE]
    /\ gpc' = "loop"
    /\ UNCHANGED <<parameters, value, entries, should_quit, ci, completed, streams,
                   sys_std, old_std, cpc, ck, args, closed, nConfirms, nCalls,
                   calls_args, escaped, touched>>
    /\ NotGui

\* on_quit, entered by closing the root window: the flag, then quit()
OnQuit ==
    /\ gpc = "loop"
    /\ should_quit' = TRUE
    /\ closed' = TRUE
    /\ gpc' = "on_quit"
    /\ UNCHANGED <<parameters, value, entries, event, disabled, log_window, ci,
                   completed, streams, sys_std, old_std, cpc, ck, args, nConfirms,
                   nSubmit, nCalls, attempt, in_a_row, calls_args, escaped, touched>>
    /\ NotGui

\* the Escape key on the root window: bind('<Escape>', self.on_quit) makes
\* tkinter call on_quit(event), on_quit takes no argument besides self, the
\* call raises TypeError before the body runs, tkinter reports the exception
\* on stderr and the event loop goes on
OnEscape ==
    /\ gpc = "loop"
    /\ ~escaped
    /\ escaped' = TRUE
    /\ UNCHANGED <<parameters, value, entries, should_quit, event, disabled,
                   log_window, gpc, ci, completed, streams, sys_std, old_std, cpc,
                   ck, args, closed, nConfirms, nSubmit, nCalls, attempt, in_a_row,
                   calls_args, touched>>
    /\ NotGui

\* on_quit: self.event.set(); mainloop returns after the handler
OnQuitSet ==
    /\ gpc = "on_quit"
    /\ event' = TRUE
    /\ gpc' = "exit"
    /\ UNCHANGED <<parameters, value, entries, should_quit, disabled, log_window,
                   ci, completed, streams, sys_std, old_std, cpc, ck, args, closed,
                   nConfirms, nSubmit, nCalls, attempt, in_a_row, calls_args, escaped, touched>>
    /\ NotGui

\* run after mainloop: sys.stdout = old_stdout; sys.stderr = old_stderr
RunRestore ==
    /\ gpc = "exit"
    /\ sys_std' = old_std
    /\ gpc' = "done"
    /\ UNCHANGED <<parameters, value, entries, should_quit, event, disabled,
                   log_window, ci, completed, streams, old_std, cpc, ck, args,
                   closed, nConfirms, nSubmit, nCalls, attempt, in_a_row,
                   calls_args, escaped, touched>>
    /\ NotGui

\* ---- the caller's thread: the loop of GenericUI.load_gui ---------------

\* what a step of the caller leaves alone
CallerFrame ==
    UNCHANGED <<parameters, value, entries, should_quit, disabled, log_window, gpc,
                ci, completed, streams, sys_std, old_std, closed, nConfirms,
                nSubmit, attempt, in_a_row, escaped, touched>>

\* get_input: self.event.clear()
GetInputClear ==
    /\ cpc = "get_input"
    /\ event' = FALSE
    /\ cpc' = "wait"
    /\ UNCHANGED <<ck, args, nCalls, calls_args>>
    /\ CallerFrame
    /\ NotGui

\* get_input: self.event.wait() returns once the flag is set
GetInputWait ==
    /\ cpc = "wait"
    /\ event
    /\ cpc' = "check"
    /\ UNCHANGED <<event, ck, args, nCalls, calls_args>>
    /\ CallerFrame
    /\ NotGui

\* if self.gui.should_quit: break; otherwise args = {}
CheckQuit ==
    /\ cpc = "check"
    /\ IF should_quit
       THEN /\ cpc' = "join"
            /\ UNCHANGED <<ck, args>>
       ELSE /\ cpc' = "read"
            /\ ck' = 1
            /\ args' = <<>>
    /\ UNCHANGED <<event, nCalls, calls_args>>
    /\ CallerFrame
    /\ NotGui

\* args[parameter.name] = parameter.value, one parameter per step
ReadValue ==
    /\ cpc = "read"
    /\ ck <= NParams
    /\ args' = DictSet(args, parameters[ck].name, value[ck])
    /\ ck' = ck + 1
    /\ UNCHANGED <<event, cpc, nCalls, calls_args>>
    /\ CallerFrame
    /\ NotGui

\* self.main(**args) is called
CallMain ==
    /\ cpc = "read"
    /\ ck > NParams
    /\ cpc' = "main"
    /\ nCalls' = nCalls + 1
    /\ calls_args' = Append(calls_args, args)
    /\ UNCHANGED <<event, ck, args>>
    /\ CallerFrame
    /\ NotGui

\* self.main returns and the loop starts over
MainReturn ==
    /\ cpc = "main"
    /\ cpc' = "get_input"
    /\ UNCHANGED <<event, ck, args, nCalls, calls_args>>
    /\ CallerFrame
    /\ NotGui

\* self.gui.join() returns once run has returned
Join ==
    /\ cpc = "join"
    /\ gpc = "done"
    /\ cpc' = "done"
    /\ UNCHANGED <<event, ck, args, nCalls, calls_args>>
    /\ CallerFrame
    /\ NotGui

\* ------------------------------------------------------------------------
\* Parameter.__init__ and the registry Parameter.used_flags
\* ------------------------------------------------------------------------

\* the functions a script may pass as verify, with the number of parameters
\* inspect.signature finds
VerifyArgs == [identity |-> 1, reject_x |-> 1, upper |-> 1, float |-> 1,
               no_args |-> 0, two_args |-> 2, bool |-> 1]

\* the builtin types for which inspect.signature raises ValueError ("no
\* signature found for builtin type"): bool, int and str, not float
NoSignature == {"bool"}

\* the flags of a Parameter (None left out)
FlagsOf(param) == {param.short, param.long} \ {NoneS}

\* ParameterInit with the bug of a missing check of the long flag
ParameterInit_NoLongCheck(used, short, long, verify) ==
    LET sflag == IF short # NoneS THEN <<"-">> \o short ELSE NoneS
        lflag == IF long # NoneS THEN <<"-", "-">> \o long ELSE NoneS
        used1 == IF sflag # NoneS THEN used \cup {sflag} ELSE used
        used2 == IF lflag # NoneS THEN used1 \cup {lflag} ELSE used1
    IN IF sflag # NoneS /\ sflag \in used
       THEN [used |-> used, error |-> "short"]
       ELSE IF verify \in NoSignature
       THEN [used |-> used2, error |-> "signature"]
       ELSE IF VerifyArgs[verify] # 1
       THEN [used |-> used2, error |-> "verify"]
       ELSE [used |-> used2, error |-> "none"]

\* Parameter.__init__ on the registry used: the registry it leaves and the
\* error it raises ("none" when it returns).  A flag is recorded as soon as
\* it passed its own check.
ParameterInit(used, short, long, verify) ==
    LET sflag == IF short # NoneS THEN <<"-">> \o short ELSE NoneS
        lflag == IF long # NoneS THEN <<"-", "-">> \o long ELSE NoneS
        used1 == IF sflag # NoneS THEN used \cup {sflag} ELSE used
        used2 == IF lflag # NoneS THEN used1 \cup {lflag} ELSE used1
    IN IF sflag # NoneS /\ sflag \in used
       THEN [used |-> used, error |-> "short"]
       ELSE IF lflag # NoneS /\ lflag \in used1
       THEN [used |-> used1, error |-> "long"]
       ELSE IF verify \in NoSignature
       THEN [used |-> used2, error |-> "signature"]
       ELSE IF VerifyArgs[verify] # 1
       THEN [used |-> used2, error |-> "verify"]
       ELSE [used |-> used2, error |-> "none"]

RegInit ==
    /\ used_flags = {}
    /\ constructed = <<>>
    /\ last = [n |-> 0, short |-> NoneS, long |-> NoneS, verify |-> "identity",
               before |-> {}, len |-> 0, error |-> "none"]

\* one call Parameter(name, short=..., long=..., verify=...)
Construct(name, short, long, verify) ==
    /\ last.n < MaxParams
    /\ LET r == ParameterInit(used_flags, short, long, verify)
       IN /\ used_flags' = r.used
          /\ constructed' =
                IF r.error = "none"
                THEN Append(constructed,
                            Parameter(name, short, long, NoneS, "1", NoneV, verify, "text"))
                ELSE constructed
          /\ last' = [n |-> last.n + 1,
                      short |-> IF short # NoneS THEN <<"-">> \o short ELSE NoneS,
                      long |-> IF long # NoneS THEN <<"-", "-">> \o long ELSE NoneS,
                      verify |-> verify,
                      before |-> used_flags,
                      len |-> Len(constructed),
                      error |-> r.error]
    /\ NotReg

\* the arguments the model passes to Parameter
ShortArgs == {NoneS, <<"a">>, <<"b">>, <<"-", "a">>}

LongArgs == {NoneS, <<"a">>, <<"b">>}

VerifyArgsTried == {"identity", "no_args", "two_args", "bool"}

RegNext ==
    \E short \in ShortArgs, long \in LongArgs, verify \in VerifyArgsTried :
        Construct(<<"n">>, short, long, verify)

\* ------------------------------------------------------------------------
\* GenericGUI.set_progress
\* ------------------------------------------------------------------------

Max(a, b) == IF a >= b THEN a ELSE b

Min(a, b) == IF a <= b THEN a ELSE b

\* max(0, min(percentage, 100))
Clamp(percentage) == Max(0, Min(percentage, 100))

\* the state create_log_window leaves: the bar placed and forgotten, the
\* IntVar at its initial 0, processing the class attribute False
ProgInit ==
    /\ processing = FALSE
    /\ progress = 0
    /\ bar_placed = FALSE
    /\ calls = <<>>

SetProgress(percentage) ==
    /\ Len(calls) < MaxCalls
    /\ LET clamped_percentage == Clamp(percentage)
       IN /\ IF ~processing /\ clamped_percentage > 0
             THEN /\ bar_placed' = TRUE
                  /\ processing' = TRUE
             ELSE IF processing /\ clamped_percentage = 100
             THEN /\ bar_placed' = FALSE
                  /\ processing' = FALSE
             ELSE UNCHANGED <<bar_placed, processing>>
          /\ progress' = clamped_percentage
    /\ calls' = Append(calls, percentage)
    /\ NotProg

\* the integer percentages the model reports
Percentages == {-5, 0, 1, 50, 99, 100, 150}

ProgNext == \E percentage \in Percentages : SetProgress(percentage)

\* ------------------------------------------------------------------------
\* The command-line surface: GenericUI.load_cli on argparse
\* ------------------------------------------------------------------------

\* the argument definition load_cli hands to add_argument for one parameter;
\* add_argument raises TypeError when a store_true/store_false action is
\* given a metavar
ArgumentFor(parameter) ==
    LET positional == parameter.short = NoneS /\ parameter.long = NoneS
        action == IF parameter.nargs = "0"
                  THEN (IF ~Truthy(parameter.default) THEN "store_true" ELSE "store_false")
                  ELSE "store"
    IN [ok |-> ~(action # "store" /\ parameter.meta # NoneS),
        dest |-> parameter.name,
        positional |-> positional,
        action |-> action,
        nargs |-> parameter.nargs,
        default |-> parameter.default,
        type |-> parameter.verify]

\* the type function of an argument on one token: error_wrap(verify), or the
\* bare type itself
CliType(arg, raw) ==
    IF arg.type \in BareTypes THEN FloatCall(raw) ELSE CallVerify(arg.type, raw)

\* the value of an argument the command line does not hold: its default, a
\* str default being passed through the type function first
CliDefault(arg) ==
    IF arg.action = "store_true" /\ arg.default.t = "none" THEN Ok(BoolV(FALSE))
    ELSE IF arg.action = "store" /\ arg.default.t = "str"
    THEN CliType(arg, arg.default.s)
    ELSE Ok(arg.default)

\* the tokens of an argument, each through the type function
CliList(arg, toks) ==
    LET checked == [k \in 1..Len(toks) |-> CliType(arg, toks[k])]
    IN IF \E k \in 1..Len(checked) : ~checked[k].ok
       THEN Raise
       ELSE Ok(ListV([k \in 1..Len(checked) |-> checked[k].val.s]))

\* parse_args on one argument: the value it stores, or a parse error
ParseOne(arg, inp) ==
    LET given == IF arg.positional THEN inp.toks # <<>> ELSE inp.present
    IN CASE arg.action # "store" ->
                IF arg.positional THEN
                    (IF inp.toks # <<>> THEN Raise ELSE Ok(BoolV(arg.action = "store_true")))
                ELSE IF ~given THEN CliDefault(arg)
                ELSE IF inp.toks # <<>> THEN Raise
                ELSE Ok(BoolV(arg.action = "store_true"))
         [] arg.action = "store" /\ arg.nargs = "1" ->
                IF ~given THEN (IF arg.positional THEN Raise ELSE CliDefault(arg))
                ELSE IF Len(inp.toks) # 1 THEN Raise
                ELSE CliType(arg, inp.toks[1])
         [] arg.action = "store" /\ arg.nargs = "?" ->
                IF ~given THEN CliDefault(arg)
                ELSE IF inp.toks = <<>> THEN Ok(NoneV)
                ELSE IF Len(inp.toks) # 1 THEN Raise
                ELSE CliType(arg, inp.toks[1])
         [] arg.action = "store" /\ arg.nargs = "*" ->
                IF ~given
                THEN (IF arg.positional /\ arg.default.t = "none"
                      THEN Ok(ListV(<<>>)) ELSE CliDefault(arg))
                ELSE CliList(arg, inp.toks)
         [] arg.action = "store" /\ arg.nargs = "+" ->
                IF ~given THEN (IF arg.positional THEN Raise ELSE CliDefault(arg))
                ELSE IF inp.toks = <<>> THEN Raise
                ELSE CliList(arg, inp.toks)

\* the parameter lists a script hands to GenericUI in the model
CliParams1 ==
    << Parameter(<<"p">>, NoneS, NoneS, <<"m">>, "1", NoneV, "reject_x", "file"),
       Parameter(<<"o">>, <<"o">>, <<"o">>, NoneS, "0", BoolV(FALSE), "identity", "text") >>

CliParams2 ==
    << Parameter(<<"u">>, <<"u">>, NoneS, NoneS, "*", NoneV, "upper", "text"),
       Parameter(<<"d">>, NoneS, <<"l">>, NoneS, "1", StrV(<<"a">>), "reject_x", "text") >>

CliParams3 ==
    << Parameter(<<"p">>, NoneS, NoneS, NoneS, "1", NoneV, "float", "text"),
       Parameter(<<"n">>, <<"n">>, NoneS, NoneS, "0", BoolV(FALSE), "identity", "text") >>

CliParams4 ==
    << Parameter(<<"t">>, <<"t">>, <<"t">>, NoneS, "0", BoolV(TRUE), "identity", "text") >>

CliParams5 ==
    << Parameter(<<"n">>, NoneS, NoneS, NoneS, "1", NoneV, "upper", "text") >>

CliParamLists == {CliParams1, CliParams2, CliParams3, CliParams4, CliParams5}

\* what the command line can hold for one parameter
CliInputs ==
    {[present |-> FALSE, toks |-> <<>>]}
    \cup {[present |-> TRUE, toks |-> toks] :
            toks \in {<<>>, << <<"a">> >>, << <<"x">> >>, << <<"1">> >>,
                      << <<"a">>, <<"x">> >>}}

CliInit ==
    /\ cli_params \in CliParamLists
    /\ argv \in [1..Len(cli_params) -> CliInputs]
    /\ parser = <<>>
    /\ namespace = <<>>
    /\ cli_pc = "build"
    /\ cli_i = 1
    /\ exit_status = -1
    /\ main_calls = 0
    /\ main_args = <<>>

\* load_cli: parser.add_argument for the next parameter; an exception of
\* add_argument ends the process with a traceback
AddArgument ==
    /\ cli_pc = "build"
    /\ cli_i <= Len(cli_params)
    /\ LET arg == ArgumentFor(cli_params[cli_i])
       IN IF arg.ok
          THEN /\ parser' = Append(parser, arg)
               /\ cli_i' = cli_i + 1
               /\ UNCHANGED <<cli_pc, exit_status>>
          ELSE /\ cli_pc' = "exit"
               /\ exit_status' = 1
               /\ UNCHANGED <<parser, cli_i>>
    /\ UNCHANGED <<cli_params, argv, namespace, main_calls, main_args>>
    /\ NotCli

\* load_cli: parser.parse_args() is entered
ParseArgs ==
    /\ cli_pc = "build"
    /\ cli_i > Len(cli_params)
    /\ cli_pc' = "parse"
    /\ cli_i' = 1
    /\ UNCHANGED <<cli_params, argv, parser, namespace, exit_status, main_calls,
                   main_args>>
    /\ NotCli

\* ParseArg with the bug of a validator failure that is swallowed: the
\* argument is stored as None and parsing goes on
ParseArg_Swallow ==
    /\ cli_pc = "parse"
    /\ cli_i <= Len(parser)
    /\ LET r == ParseOne(parser[cli_i], argv[cli_i])
       IN /\ namespace' = DictSet(namespace, parser[cli_i].dest,
                                  IF r.ok THEN r.val ELSE NoneV)
          /\ cli_i' = cli_i + 1
          /\ UNCHANGED <<cli_pc, exit_status>>
    /\ UNCHANGED <<cli_params, argv, parser, main_calls, main_args>>
    /\ NotCli

\* parse_args on the next argument: a value in the Namespace, or
\* parser.error(): the message on stderr and exit status 2
ParseArg ==
    /\ cli_pc = "parse"
    /\ cli_i <= Len(parser)
    /\ LET r == ParseOne(parser[cli_i], argv[cli_i])
       IN IF r.ok
          THEN /\ namespace' = DictSet(namespace, parser[cli_i].dest, r.val)
               /\ cli_i' = cli_i + 1
               /\ UNCHANGED <<cli_pc, exit_status>>
          ELSE /\ cli_pc' = "exit"
               /\ exit_status' = 2
               /\ UNCHANGED <<namespace, cli_i>>
    /\ UNCHANGED <<cli_params, argv, parser, main_calls, main_args>>
    /\ NotCli

\* load_cli: self.main(**vars(args))
CliCallMain ==
    /\ cli_pc = "parse"
    /\ cli_i > Len(parser)
    /\ cli_pc' = "main"
    /\ main_calls' = main_calls + 1
    /\ main_args' = namespace
    /\ UNCHANGED <<cli_params, argv, parser, namespace, cli_i, exit_status>>
    /\ NotCli

\* self.main returns, load_cli returns and the script ends
CliMainReturn ==
    /\ cli_pc = "main"
    /\ cli_pc' = "exit"
    /\ exit_status' = 0
    /\ UNCHANGED <<cli_params, argv, parser, namespace, cli_i, main_calls,
                   main_args>>
    /\ NotCli

CliNext ==
    \/ AddArgument
    \/ ParseArgs
    \/ ParseArg
    \/ CliCallMain
    \/ CliMainReturn

\* ------------------------------------------------------------------------
\* The log of the form: GenericGUI.log and the Listbox of the log window
\* ------------------------------------------------------------------------

LF == <<"\n">>

CR == <<"\r">>

\* the class attributes msg_buffer and carriage_return; no log window yet
LogInit ==
    /\ msg_buffer = <<>>
    /\ carriage_return = FALSE
    /\ log_list = <<>>
    /\ log_open = FALSE
    /\ fragments = <<>>
    /\ last_commit = <<>>
    /\ nFrags = 0

\* log_list.delete(log_list.size() - 1): the last entry goes; on an empty
\* Listbox the index is -1 and nothing is deleted
DeleteLast(entries_) ==
    IF entries_ = <<>> THEN <<>> ELSE SubSeq(entries_, 1, Len(entries_) - 1)

\* create_log_window: a new, empty Listbox
CreateLogWindow ==
    /\ ~log_open
    /\ log_open' = TRUE
    /\ log_list' = <<>>
    /\ fragments' = <<>>
    /\ last_commit' = <<>>
    /\ UNCHANGED <<msg_buffer, carriage_return, nFrags>>
    /\ NotLog

\* on_log_quit: log_window.destroy() destroys the Listbox with it
DestroyLogWindow ==
    /\ log_open
    /\ log_open' = FALSE
    /\ log_list' = <<>>
    /\ fragments' = <<>>
    /\ last_commit' = <<>>
    /\ UNCHANGED <<msg_buffer, carriage_return, nFrags>>
    /\ NotLog

\* log with the bug of a carriage return that is forgotten: every commit
\* appends
Log_NoReplace(msg) ==
    /\ nFrags < MaxFrags
    /\ nFrags' = nFrags + 1
    /\ fragments' = Append(fragments, msg)
    /\ IF msg \notin {LF, CR}
       THEN /\ msg_buffer' = msg_buffer \o msg
            /\ UNCHANGED <<carriage_return, log_list, last_commit>>
       ELSE /\ msg_buffer' = <<>>
            /\ carriage_return' = (msg = CR)
            /\ IF log_open
               THEN /\ log_list' = Append(log_list, msg_buffer)
                    /\ last_commit' = msg
               ELSE UNCHANGED <<log_list, last_commit>>
    /\ UNCHANGED log_open
    /\ NotLog

\* log(msg), the write of the redirected streams.  Without a live Listbox
\* the first call on log_list raises, the except clause swallows it and the
\* finally clause still empties the buffer
Log(msg) ==
    /\ nFrags < MaxFrags
    /\ nFrags' = nFrags + 1
    /\ fragments' = Append(fragments, msg)
    /\ IF msg \notin {LF, CR}
       THEN /\ msg_buffer' = msg_buffer \o msg
            /\ UNCHANGED <<carriage_return, log_list, last_commit>>
       ELSE /\ msg_buffer' = <<>>
            /\ IF carriage_return /\ ~log_open
               THEN UNCHANGED <<carriage_return, log_list, last_commit>>
               ELSE /\ carriage_return' = (msg = CR)
                    /\ IF log_open
                       THEN /\ log_list' =
                                Append(IF carriage_return THEN DeleteLast(log_list)
                                       ELSE log_list, msg_buffer)
                            /\ last_commit' = msg
                       ELSE UNCHANGED <<log_list, last_commit>>
    /\ UNCHANGED log_open
    /\ NotLog

\* what print and write hand to log in the model
LogFragments == {<<"a", "b", "c">>, <<"d", "e", "f">>, LF, CR}

LogNext ==
    \/ CreateLogWindow
    \/ DestroyLogWindow
    \/ \E msg \in LogFragments : Log(msg)

\* ------------------------------------------------------------------------
\* The mode selector: GenericUI.run
\* ------------------------------------------------------------------------

\* the override token
GuiToken == <<"-", "-", "g", "u", "i">>

\* the name of the desktop shell
Explorer == <<"e", "x", "p", "l", "o", "r", "e", "r", ".", "e", "x", "e">>

\* names of scripts and processes in the model
ScriptNames == {<<"t">>, <<"s">>}

ProcessNames == {<<"t">>, Explorer}

ArgvTokens == {GuiToken, <<"a">>}

\* the sequences over a set, up to a length
RECURSIVE SeqsUpTo(_, _)
SeqsUpTo(S, n) ==
    IF n = 0 THEN {<<>>}
    ELSE LET shorter == SeqsUpTo(S, n - 1)
         IN shorter \cup {Append(q, x) : q \in {r \in shorter : Len(r) = n - 1}, x \in S}

\* list.remove(x): the first occurrence goes
RECURSIVE ListRemove(_, _)
ListRemove(lst, x) ==
    IF lst = <<>> THEN <<>>
    ELSE IF Head(lst) = x THEN Tail(lst)
    ELSE <<Head(lst)>> \o ListRemove(Tail(lst), x)

\* x in list
ListIn(x, lst) == \E k \in 1..Len(lst) : lst[k] = x

\* run is entered: the command line and the processes above this one
SelInit ==
    /\ sys_argv \in SeqsUpTo(ArgvTokens, MaxArgv)
    /\ script \in ScriptNames
    /\ proc_parent \in ProcessNames \cup {NoneS}
    /\ proc_grandparent \in ProcessNames \cup {NoneS}
    /\ (proc_parent = NoneS => proc_grandparent = NoneS)
    /\ exe = NoneS
    /\ parent_exe = NoneS
    /\ load_ui = FALSE
    /\ sel_pc = "exe"
    /\ surface = "none"
    /\ argv0 = sys_argv

\* run was not entered
SelOff ==
    /\ sys_argv = <<>>
    /\ script = NoneS
    /\ proc_parent = NoneS
    /\ proc_grandparent = NoneS
    /\ exe = NoneS
    /\ parent_exe = NoneS
    /\ load_ui = FALSE
    /\ sel_pc = "off"
    /\ surface = "none"
    /\ argv0 = <<>>

\* exe = psutil.Process(os.getpid()).parent().name(); parent() is None for a
\* process without a parent and None.name() raises AttributeError
ReadExe ==
    /\ sel_pc = "exe"
    /\ IF proc_parent = NoneS
       THEN /\ sel_pc' = "crashed"
            /\ UNCHANGED exe
       ELSE /\ exe' = proc_parent
            /\ sel_pc' = "parent_exe"
    /\ UNCHANGED <<sys_argv, script, proc_parent, proc_grandparent, parent_exe,
                   load_ui, surface, argv0>>
    /\ NotSel

\* parent_exe = psutil.Process(os.getpid()).parent().parent().name()
ReadParentExe ==
    /\ sel_pc = "parent_exe"
    /\ IF proc_grandparent = NoneS
       THEN /\ sel_pc' = "crashed"
            /\ UNCHANGED parent_exe
       ELSE /\ parent_exe' = proc_grandparent
            /\ sel_pc' = "origin"
    /\ UNCHANGED <<sys_argv, script, proc_parent, proc_grandparent, exe, load_ui,
                   surface, argv0>>
    /\ NotSel

\* load_ui = False; if script == exe and parent_exe == 'explorer.exe'
CheckOrigin ==
    /\ sel_pc = "origin"
    /\ load_ui' = (script = exe /\ parent_exe = Explorer)
    /\ sel_pc' = "override"
    /\ UNCHANGED <<sys_argv, script, proc_parent, proc_grandparent, exe, parent_exe,
                   surface, argv0>>
    /\ NotSel

\* if '--gui' in sys.argv: sys.argv.remove('--gui'); load_ui = True
CheckOverride ==
    /\ sel_pc = "override"
    /\ IF ListIn(GuiToken, sys_argv)
       THEN /\ sys_argv' = ListRemove(sys_argv, GuiToken)
            /\ load_ui' = TRUE
       ELSE UNCHANGED <<sys_argv, load_ui>>
    /\ sel_pc' = "load"
    /\ UNCHANGED <<script, proc_parent, proc_grandparent, exe, parent_exe, surface,
                   argv0>>
    /\ NotSel

\* if load_ui: self.load_gui() else: self.load_cli()
LoadSurface ==
    /\ sel_pc = "load"
    /\ surface' = IF load_ui THEN "gui" ELSE "cli"
    /\ sel_pc' = "done"
    /\ UNCHANGED <<sys_argv, script, proc_parent, proc_grandparent, exe, parent_exe,
                   load_ui, argv0>>
    /\ NotSel

SelNext ==
    \/ ReadExe
    \/ ReadParentExe
    \/ CheckOrigin
    \/ CheckOverride
    \/ LoadSurface

\* ------------------------------------------------------------------------
\* One call of a field's validator as load_gui wrapped it
\* ------------------------------------------------------------------------

\* the characters a raw text is made of in the model
RawChars == {"a", "x", ",", " "}

\* the raw texts: all short ones and the text "a, b ,c"
RawTexts ==
    SeqsUpTo(RawChars, MaxRaw) \cup {<<"a", ",", " ", "b", " ", ",", "c">>}

\* the Parameters with an Entry whose validator is called
VerifiedParams ==
    {Parameter(<<"v">>, NoneS, NoneS, NoneS, nargs, NoneV, verify, "text") :
        nargs \in {"1", "?", "*", "+"}, verify \in Validators}

VerInit ==
    /\ v_param \in VerifiedParams
    /\ v_raw \in RawTexts
    /\ v_result = Raise
    /\ v_pc = "ready"

\* no validator is called
VerOff ==
    /\ v_param = <<>>
    /\ v_raw = <<>>
    /\ v_result = Raise
    /\ v_pc = "off"

\* value = param.verify(entry.get())
CallGuiVerify ==
    /\ v_pc = "ready"
    /\ v_result' = GuiVerify(v_param, v_raw)
    /\ v_pc' = "done"
    /\ UNCHANGED <<v_param, v_raw>>
    /\ NotVer

VerNext == CallGuiVerify

\* ------------------------------------------------------------------------
\* Specifications: one per surface, the other surfaces not started
\* ------------------------------------------------------------------------

vars == <<guiVars, cliVars, regVars, progVars, logVars, selVars, verVars>>

\* no form was built: GenericUI.gui is None
GuiOff ==
    /\ parameters = <<>>
    /\ value = <<>>
    /\ entries = <<>>
    /\ should_quit = FALSE
    /\ event = FALSE
    /\ disabled = FALSE
    /\ log_window = FALSE
    /\ gpc = "off"
    /\ ci = 0
    /\ completed = TRUE
    /\ streams = [stdout |-> "original", stderr |-> "original"]
    /\ sys_std = [stdout |-> "stdout", stderr |-> "stderr"]
    /\ old_std = [stdout |-> "unset", stderr |-> "unset"]
    /\ cpc = "off"
    /\ ck = 0
    /\ args = <<>>
    /\ closed = FALSE
    /\ nConfirms = 0
    /\ nSubmit = 0
    /\ nCalls = 0
    /\ attempt = NoAttempt
    /\ in_a_row = 0
    /\ calls_args = <<>>
    /\ escaped = FALSE
    /\ touched = {}

\* load_cli was not entered
CliOff ==
    /\ cli_params = <<>>
    /\ argv = <<>>
    /\ parser = <<>>
    /\ namespace = <<>>
    /\ cli_pc = "off"
    /\ cli_i = 0
    /\ exit_status = -1
    /\ main_calls = 0
    /\ main_args = <<>>

GuiNext ==
    \/ RunInit
    \/ \E i \in 1..NParams, text \in UserTexts \cup HelpTexts : TypeText(i, text)
    \/ \E i \in 1..NParams : HandleClick(i)
    \/ \E i \in 1..NParams, dir_name \in Picks : AskDirectory(i, dir_name)
    \/ \E i \in 1..NParams, file_name \in Picks : AskFile(i, file_name)
    \/ \E i \in 1..NParams : Toggle(i)
    \/ OnLogQuit
    \/ ConfirmStart
    \/ ConfirmField
    \/ ConfirmEnd
    \/ OnQuit
    \/ OnEscape
    \/ OnQuitSet
    \/ RunRestore
    \/ GetInputClear
    \/ GetInputWait
    \/ CheckQuit
    \/ ReadValue
    \/ CallMain
    \/ MainReturn
    \/ Join

\* the form surface: the form's thread, the user and the caller's thread
InitGui == GuiInit /\ CliOff /\ RegInit /\ ProgInit /\ LogInit /\ SelOff /\ VerOff

SpecGui == InitGui /\ [][GuiNext]_vars

\* the steps the two threads take on their own: the form's thread runs run
\* and every handler it entered to its end, the caller's thread runs the loop
\* of load_gui, and the callback returns.  What the user does is left free.
ThreadSteps ==
    \/ RunInit
    \/ ConfirmField
    \/ ConfirmEnd
    \/ OnQuitSet
    \/ RunRestore
    \/ GetInputClear
    \/ GetInputWait
    \/ CheckQuit
    \/ ReadValue
    \/ CallMain
    \/ MainReturn
    \/ Join

\* the form surface with both threads scheduled
SpecGuiFair == InitGui /\ [][GuiNext]_vars /\ WF_vars(ThreadSteps)

\* the command-line surface
InitCli == CliInit /\ GuiOff /\ RegInit /\ ProgInit /\ LogInit /\ SelOff /\ VerOff

SpecCli == InitCli /\ [][CliNext]_vars

\* the construction of Parameters
InitParameter == RegInit /\ GuiOff /\ CliOff /\ ProgInit /\ LogInit /\ SelOff /\ VerOff

SpecParameter == InitParameter /\ [][RegNext]_vars

\* the progress indicator of the log window
InitProgress == ProgInit /\ GuiOff /\ CliOff /\ RegInit /\ LogInit /\ SelOff /\ VerOff

SpecProgress == InitProgress /\ [][ProgNext]_vars

\* the log: fragments written to the streams, the log window opened and closed
InitLog == LogInit /\ GuiOff /\ CliOff /\ RegInit /\ ProgInit /\ SelOff /\ VerOff

SpecLog == InitLog /\ [][LogNext]_vars

\* the mode selector
InitSelector == SelInit /\ GuiOff /\ CliOff /\ RegInit /\ ProgInit /\ LogInit /\ VerOff

SpecSelector == InitSelector /\ [][SelNext]_vars

\* one call of a wrapped validator
InitVerify ==
    VerInit /\ GuiOff /\ CliOff /\ RegInit /\ ProgInit /\ LogInit /\ SelOff

SpecVerify == InitVerify /\ [][VerNext]_vars

\* ------------------------------------------------------------------------
\* Properties of the form surface (checked under SpecGui)
\* ------------------------------------------------------------------------

\* the caller is blocked in event.wait() and the flag is clear
Blocked == cpc = "wait" /\ ~event

\* the Entry parameters of the mode
EntryParams == {i \in 1..NParams : parameters[i].widget # "box"}

\* the validator of every Entry parameter accepts the text its field holds
AllValid ==
    \A i \in EntryParams : GuiVerify(parameters[i], entries[i].text).ok

\* the caller is between the return of get_input and the last read of a value
CallerReading == cpc = "check" \/ (cpc = "read" /\ ck <= NParams)

\* C1: once the user closed the main window (on_quit has run to its end), the
\* caller is never left blocked in get_input: it is not waiting on a cleared
\* event that nothing will set again.
C1_CloseReleasesCaller ==
    (closed /\ gpc \in {"exit", "done"}) => ~Blocked

\* C2: every successful submission is answered by exactly one return of
\* get_input and one call of the callback: the callback is never called more
\* often than the form was submitted, and when the form is idle and the caller
\* is blocked in get_input again, every submission has had its call.
C2_OneCallPerSubmission ==
    /\ nCalls <= nSubmit
    /\ (Blocked /\ gpc = "loop") => nCalls = nSubmit

\* C3: a confirm visits every field of the mode in order, also after a field
\* failed, and it disables the inputs, opens the log window and sets the event
\* exactly when every validator accepted its field's text in this confirm.
C3_SubmitOnlyWhenAllValid ==
    attempt.done =>
        /\ attempt.visited = [i \in 1..NParams |-> i]
        /\ attempt.failed = {i \in EntryParams :
                                ~GuiVerify(parameters[i], entries[i].text).ok}
        /\ attempt.proceeded <=> AllValid
        /\ attempt.released <=> AllValid
        /\ attempt.proceeded => (disabled /\ log_window)
        /\ ~attempt.proceeded => (~disabled /\ ~log_window)

\* a confirm in which the first field failed and the later fields were still
\* validated, and which did not proceed
C3_Witness ==
    /\ attempt.done
    /\ NParams >= 2
    /\ 1 \in attempt.failed
    /\ Len(attempt.visited) = NParams
    /\ ~attempt.proceeded
    /\ nSubmit = 0
    /\ ~event

\* C6: after a successful submission, every Entry parameter whose field still
\* holds the placeholder text of its widget kind has its default as value, and
\* the callback of that submission receives the default for it.
C6_PlaceholderGivesDefault ==
    (attempt.done /\ attempt.proceeded) =>
        \A i \in EntryParams :
            entries[i].text = help_text[parameters[i].widget] =>
                /\ value[i] = parameters[i].default
                /\ (cpc = "main" /\ nCalls = nSubmit) =>
                        args[parameters[i].name] = parameters[i].default

\* C7: after every confirm, an Entry carries the error marker exactly when its
\* validator failed in that confirm.
C7_MarkerIffFailed ==
    attempt.done =>
        \A i \in EntryParams :
            (entries[i].style = "Custom.TEntry") <=> (i \in attempt.failed)

\* C8: the form's thread never writes the value of a Parameter while the
\* caller is between the return of get_input and the last read of a value.
C8_NoWriteWhileCallerReads ==
    [][(value' # value) => ~CallerReading]_vars

\* C9: the redirection is installed while the event loop runs, and once the
\* loop has exited and run has returned, text written to sys.stdout or
\* sys.stderr goes to the original sink and not to the form's log.
C9_RedirectionRestored ==
    /\ gpc \in {"loop", "confirm", "on_quit"} =>
            (streams[sys_std.stdout] = "log" /\ streams[sys_std.stderr] = "log")
    /\ (closed /\ gpc = "done") =>
            (streams[sys_std.stdout] = "original" /\ streams[sys_std.stderr] = "original")

\* ------------------------------------------------------------------------
\* Properties of the command-line surface (checked under SpecCli)
\* ------------------------------------------------------------------------

\* the names of the parameters handed to the CLI
CliNames == {cli_params[i].name : i \in 1..Len(cli_params)}

\* the command line holds a token that the validator of its parameter rejects
SuppliedFails ==
    \E i \in 1..Len(cli_params) :
        /\ ArgumentFor(cli_params[i]).action = "store"
        /\ \E k \in 1..Len(argv[i].toks) :
              ~CliType(ArgumentFor(cli_params[i]), argv[i].toks[k]).ok

\* every parameter gave an argument definition, and every one of them parses
\* and validates on this command line
AllParse ==
    \A i \in 1..Len(cli_params) :
        /\ ArgumentFor(cli_params[i]).ok
        /\ ParseOne(ArgumentFor(cli_params[i]), argv[i]).ok

\* C4: the callback is invoked at most once; a command line with a token its
\* validator rejects ends with a non-zero exit status (the parse error status 2
\* once the parser was built) and no call of the callback; a command line on
\* which every argument parses and validates ends with exactly one call, with
\* one value per parameter keyed by its name, and exit status 0.
C4_CliAllOrNothing ==
    /\ main_calls <= 1
    /\ cli_pc \in {"build", "parse"} => main_calls = 0
    /\ main_calls = 1 =>
          /\ ~SuppliedFails
          /\ DOMAIN main_args = CliNames
          /\ \A i \in 1..Len(cli_params) :
                main_args[cli_params[i].name] = ParseOne(parser[i], argv[i]).val
    /\ cli_pc = "exit" =>
          /\ SuppliedFails => (exit_status # 0 /\ main_calls = 0)
          /\ (SuppliedFails /\ Len(parser) = Len(cli_params)) => exit_status = 2
          /\ AllParse => (exit_status = 0 /\ main_calls = 1)
          /\ exit_status = 0 => main_calls = 1

\* a run that ended on a rejected token after an earlier argument had parsed
C4_Witness ==
    /\ cli_pc = "exit"
    /\ SuppliedFails
    /\ exit_status = 2
    /\ DOMAIN namespace # {}
    /\ main_calls = 0

\* ------------------------------------------------------------------------
\* Properties of Parameter (checked under SpecParameter)
\* ------------------------------------------------------------------------

\* the last call of Parameter named a flag the registry already held
LastDuplicate == ({last.short, last.long} \ {NoneS}) \cap last.before # {}

\* C5: a construction that names a flag already in the registry fails and
\* constructs nothing, no two constructed Parameters share a flag, every flag
\* of a constructed Parameter is in the registry, and a construction never
\* removes a flag from the registry.
C5_FlagsUniqueAndKept ==
    /\ \A i, j \in 1..Len(constructed) :
          i # j => FlagsOf(constructed[i]) \cap FlagsOf(constructed[j]) = {}
    /\ \A i \in 1..Len(constructed) : FlagsOf(constructed[i]) \subseteq used_flags
    /\ last.n > 0 =>
          /\ LastDuplicate => (last.error \in {"short", "long"} /\ Len(constructed) = last.len)
          /\ last.before \subseteq used_flags

\* a construction rejected for its long flag, after one that succeeded
C5_Witness ==
    /\ last.n >= 2
    /\ Len(constructed) >= 1
    /\ last.long \in last.before
    /\ last.error = "long"

\* ------------------------------------------------------------------------
\* Properties of set_progress (checked under SpecProgress)
\* ------------------------------------------------------------------------

\* C10: after any sequence of set_progress calls the stored progress is the
\* clamped percentage of the last call, the indicator is visible only while
\* the stored progress is strictly between 0 and 100, and it is hidden after
\* every call whose clamped percentage is 100.
C10_IndicatorOnlyInside ==
    calls # <<>> =>
        /\ progress \in 0..100
        /\ progress = Clamp(calls[Len(calls)])
        /\ bar_placed => (0 < progress /\ progress < 100)
        /\ Clamp(calls[Len(calls)]) = 100 => ~bar_placed

\* ------------------------------------------------------------------------
\* Claims about the log
\* ------------------------------------------------------------------------

\* the last entry of the open log was committed by a carriage return
ReplacePending == log_list # <<>> /\ last_commit = CR

\* one call of log on an open log window, by the fragment it received
LogStepAsClaimed ==
    (log_open /\ log_open' /\ fragments' # fragments /\ fragments' # <<>>) =>
        LET msg == fragments'[Len(fragments')]
        IN IF msg \notin {LF, CR}
           THEN /\ msg_buffer' = msg_buffer \o msg
                /\ log_list' = log_list
                /\ last_commit' = last_commit
           ELSE /\ msg_buffer' = <<>>
                /\ log_list' = Append(IF ReplacePending THEN DeleteLast(log_list)
                                       ELSE log_list, msg_buffer)
                /\ last_commit' = msg

\* C11: while the log window is open, a fragment other than line feed and
\* carriage return is only buffered; a line feed commits the buffer as one
\* entry and empties it; a carriage return does the same and makes the next
\* commit replace that entry.  "abc", CR, "def", LF on a fresh log window with
\* an empty buffer leave the one entry "def".
C11_LogCommits ==
    /\ []((/\ log_open
           /\ fragments = << <<"a", "b", "c">>, CR, <<"d", "e", "f">>, LF >>
           /\ nFrags = 4)
          => log_list = << <<"d", "e", "f">> >>)
    /\ [][LogStepAsClaimed]_vars

C11_Witness ==
    /\ log_open
    /\ fragments = << <<"a", "b", "c">>, CR, <<"d", "e", "f">>, LF >>
    /\ log_list = << <<"d", "e", "f">> >>
    /\ msg_buffer = <<>>

\* ------------------------------------------------------------------------
\* Claims about boolean flags on the command line
\* ------------------------------------------------------------------------

\* the boolean-flag parameters of the list
BoolFlags ==
    {i \in 1..Len(cli_params) :
        cli_params[i].nargs = "0" /\ cli_params[i].default.t = "bool"}

\* the command line is a correct one: every other argument parses and no
\* flag is followed by a value
FlagsWellUsed ==
    /\ \A i \in 1..Len(cli_params) \ BoolFlags :
            ParseOne(ArgumentFor(cli_params[i]), argv[i]).ok
    /\ \A i \in BoolFlags : argv[i].toks = <<>>

\* C12: a boolean flag with default False gives the callback False when it
\* is absent and True when it is present, with default True the opposite;
\* in both cases the callback is invoked and the run exits with status 0.
C12_BooleanFlagPolarity ==
    (cli_pc = "exit" /\ BoolFlags # {} /\ FlagsWellUsed) =>
        /\ exit_status = 0
        /\ main_calls = 1
        /\ \A i \in BoolFlags :
               main_args[cli_params[i].name] =
                   BoolV(IF cli_params[i].default.b THEN ~argv[i].present
                         ELSE argv[i].present)

\* the same for the flags whose long flag is their name, which reach
\* add_argument without a metavar
C12_PolarityWhenLongIsName ==
    (/\ cli_pc = "exit" /\ BoolFlags # {} /\ FlagsWellUsed
     /\ \A i \in BoolFlags : cli_params[i].meta = NoneS) =>
        /\ exit_status = 0
        /\ main_calls = 1
        /\ \A i \in BoolFlags :
               main_args[cli_params[i].name] =
                   BoolV(IF cli_params[i].default.b THEN ~argv[i].present
                         ELSE argv[i].present)

\* ------------------------------------------------------------------------
\* Claims about the mode selector
\* ------------------------------------------------------------------------

\* run has ended: a surface was entered or an exception left run
SelEnded == sel_pc \in {"done", "crashed"}

\* C13: with the override token among the arguments the form surface is
\* selected and no override token remains, whatever the names of the parent
\* processes are and whether they can be read; without it the form surface
\* is selected exactly when the script's name is the parent's and the
\* grandparent is the desktop shell, and the command-line surface otherwise.
C13_ModeSelector ==
    SelEnded =>
        IF ListIn(GuiToken, argv0)
        THEN surface = "gui" /\ ~ListIn(GuiToken, sys_argv)
        ELSE (proc_parent # NoneS /\ proc_grandparent # NoneS) =>
                 surface = (IF script = proc_parent /\ proc_grandparent = Explorer
                            THEN "gui" ELSE "cli")

\* the same with the processes' names readable and the token given once
C13_ReadableAndOnce ==
    (/\ SelEnded
     /\ proc_parent # NoneS /\ proc_grandparent # NoneS
     /\ Cardinality({k \in 1..Len(argv0) : argv0[k] = GuiToken}) <= 1) =>
        IF ListIn(GuiToken, argv0)
        THEN surface = "gui" /\ ~ListIn(GuiToken, sys_argv)
        ELSE surface = (IF script = proc_parent /\ proc_grandparent = Explorer
                        THEN "gui" ELSE "cli")

\* ------------------------------------------------------------------------
\* Claims about multi-value fields
\* ------------------------------------------------------------------------

\* the positions of the commas of a text, and the k-th of them (0 before the
\* text, one past its end after the last comma)
CommasOf(raw) == {i \in 1..Len(raw) : raw[i] = ","}

CommaNo(raw, k) ==
    IF k = 0 THEN 0
    ELSE IF k > Cardinality(CommasOf(raw)) THEN Len(raw) + 1
    ELSE CHOOSE i \in CommasOf(raw) :
            Cardinality({j \in CommasOf(raw) : j <= i}) = k

\* a text without the whitespace around it
Trimmed(s) ==
    LET inked == {i \in 1..Len(s) : s[i] \notin Whitespace}
    IN IF inked = {} THEN <<>>
       ELSE SubSeq(s, CHOOSE i \in inked : \A j \in inked : i <= j,
                      CHOOSE i \in inked : \A j \in inked : i >= j)

\* the pieces between the commas, trimmed, in input order
ClaimedPieces(raw) ==
    [k \in 1..(Cardinality(CommasOf(raw)) + 1) |->
        Trimmed(SubSeq(raw, CommaNo(raw, k - 1) + 1, CommaNo(raw, k) - 1))]

MultiValued == v_param.nargs \notin {"0", "1", "?"}

\* C14: for a multi-value field the raw text is split on commas, each piece
\* is stripped and validated on its own, the value is the list of the
\* validated pieces in input order, and a failure on any piece fails the
\* field; "a, b ,c" with the identity validator gives ["a", "b", "c"].
C14_ListOfValidatedPieces ==
    (v_pc = "done" /\ MultiValued) =>
        LET pieces == ClaimedPieces(v_raw)
            each == [k \in 1..Len(pieces) |-> GuiScalar(v_param.verify, pieces[k])]
        IN /\ IF \A k \in 1..Len(pieces) : each[k].ok
              THEN v_result = Ok(ListV([k \in 1..Len(pieces) |-> each[k].val.s]))
              ELSE ~v_result.ok
           /\ (v_raw = <<"a", ",", " ", "b", " ", ",", "c">>
               /\ v_param.verify = "identity")
                  => v_result = Ok(ListV(<< <<"a">>, <<"b">>, <<"c">> >>))

C14_Witness ==
    /\ v_pc = "done"
    /\ v_param.nargs = "*"
    /\ v_param.verify = "identity"
    /\ v_raw = <<"a", ",", " ", "b", " ", ",", "c">>
    /\ v_result = Ok(ListV(<< <<"a">>, <<"b">>, <<"c">> >>))

\* ------------------------------------------------------------------------
\* Claims about the round trip of a value
\* ------------------------------------------------------------------------

\* the parameters of arity exactly-one with the uppercasing validator that
\* the command line gives the raw value "x"
UpperGivenX ==
    {i \in 1..Len(cli_params) :
        /\ cli_params[i].nargs = "1"
        /\ cli_params[i].verify = "upper"
        /\ argv[i].toks = << <<"x">> >>}

\* C15: through a front end, a parameter of arity exactly-one with an
\* uppercasing validator and the raw value "x" ends with value "X" on the
\* Parameter, and the callback receives its name mapped to the scalar "X".
C15_RoundTrip ==
    (cli_pc \in {"main", "exit"} /\ main_calls = 1) =>
        \A i \in UpperGivenX :
            /\ main_args[cli_params[i].name] = StrV(<<"X">>)
            /\ cli_params[i].value = StrV(<<"X">>)

\* the part of it about the callback, on the command line
C15_CallbackGetsUpper ==
    (cli_pc \in {"main", "exit"} /\ main_calls = 1) =>
        \A i \in UpperGivenX : main_args[cli_params[i].name] = StrV(<<"X">>)

\* the validator of the form on the raw text "x"
C15_FormValidatorUppercases ==
    (/\ v_pc = "done" /\ v_raw = <<"x">>
     /\ v_param.nargs = "1" /\ v_param.verify = "upper")
        => v_result = Ok(StrV(<<"X">>))

\* ------------------------------------------------------------------------
\* Claims about repeated submission
\* ------------------------------------------------------------------------

\* every field holds a valid text that is not its placeholder
AllFilled ==
    /\ AllValid
    /\ \A i \in EntryParams : entries[i].text # help_text[parameters[i].widget]

\* the values the validators give for what the fields hold
Validated ==
    [i \in 1..NParams |->
        IF parameters[i].widget = "box" THEN BoolV(entries[i].var)
        ELSE GuiVerify(parameters[i], entries[i].text).val]

\* the form waits for the user and the caller waits for the form
Settled == gpc = "loop" /\ Blocked

\* C16: with every field valid and not a placeholder, two submissions in a
\* row without an edit between them (the log window closed between them)
\* invoke the callback twice, both times with the same validated values.
C16_TwiceSameValues ==
    (in_a_row = 2 /\ AllFilled /\ Settled) =>
        /\ Len(calls_args) = 2
        /\ calls_args[1] = calls_args[2]
        /\ \A i \in 1..NParams : calls_args[2][parameters[i].name] = Validated[i]

\* the same when the second submission is made after the caller returned to
\* its wait: the callback of the first had returned and the signal was cleared
C16_TwiceWhenCallerWaits ==
    (in_a_row = 2 /\ AllFilled /\ cpc = "main" /\ Len(calls_args) = 2) =>
        /\ calls_args[1] = calls_args[2]
        /\ \A i \in 1..NParams : calls_args[2][parameters[i].name] = Validated[i]

\* ------------------------------------------------------------------------
\* Claims about the arity of validators
\* ------------------------------------------------------------------------

\* the last construction was not stopped by one of its flags
FlagsAccepted == last.error \notin {"short", "long"}

\* C17: a construction with a validator of zero or of two or more parameters
\* fails at construction with a configuration error and constructs nothing,
\* and one with a validator of exactly one parameter is accepted.
C17_ValidatorArityChecked ==
    last.n > 0 =>
        IF VerifyArgs[last.verify] = 1
        THEN FlagsAccepted => (last.error = "none" /\ Len(constructed) = last.len + 1)
        ELSE last.error # "none" /\ Len(constructed) = last.len

\* the same for the validators that are Python functions
C17_ArityOfFunctions ==
    (last.n > 0 /\ last.verify \notin NoSignature) =>
        IF VerifyArgs[last.verify] = 1
        THEN FlagsAccepted => (last.error = "none" /\ Len(constructed) = last.len + 1)
        ELSE last.error # "none" /\ Len(constructed) = last.len

\* ------------------------------------------------------------------------
\* Claims about the Escape key
\* ------------------------------------------------------------------------

\* C18: the escape action on the main window has the effect of closing it:
\* the termination flag is set, the caller's wait is released and the run
\* loop of the form ends.
C18_EscapeQuits ==
    escaped =>
        /\ should_quit
        /\ gpc \in {"on_quit", "exit", "done"}
        /\ (gpc \in {"exit", "done"} => ~Blocked)

\* ------------------------------------------------------------------------
\* Claims about closing the log window
\* ------------------------------------------------------------------------

\* C19: closing the log window enables the inputs again and changes nothing
\* else: the termination flag stays unset, the caller's signal is not
\* touched, no value of a Parameter changes, no field changes and the event
\* loop of the form keeps running.
C19_LogCloseOnlyReenables ==
    [][(log_window /\ ~log_window') =>
          /\ ~disabled'
          /\ ~should_quit /\ ~should_quit'
          /\ event' = event
          /\ value' = value
          /\ entries' = entries
          /\ parameters' = parameters
          /\ closed' = closed
          /\ gpc = "loop" /\ gpc' = "loop"
          /\ <<cpc, ck, args, nCalls>>' = <<cpc, ck, args, nCalls>>]_vars

\* the log window of a submission was closed while its signal is still set
C19_Witness ==
    /\ nSubmit = 1
    /\ ~log_window
    /\ ~disabled
    /\ gpc = "loop"
    /\ event
    /\ ~should_quit

\* ------------------------------------------------------------------------
\* Claims about a blocked submission
\* ------------------------------------------------------------------------

\* C20: a submission attempt that is blocked because a validator failed
\* leaves the value of every Parameter of the mode as it was before the
\* attempt.
C20_BlockedAttemptKeepsValues ==
    (attempt.done /\ ~attempt.proceeded) => value = attempt.before

\* ------------------------------------------------------------------------
\* Claims about the registry after a failed construction
\* ------------------------------------------------------------------------

\* C21: a construction that fails with a configuration error (duplicate
\* short flag, duplicate long flag, wrong arity of the validator) leaves the
\* registry of flags as it was: no flag of the rejected Parameter is recorded.
C21_FailedConstructionKeepsRegistry ==
    (last.n > 0 /\ last.error # "none") => used_flags = last.before

\* the same for the constructions stopped by their short flag, the first check
C21_ShortFailureKeepsRegistry ==
    (last.n > 0 /\ last.error = "short") => used_flags = last.before

\* ------------------------------------------------------------------------
\* Claims about a form that cannot be built
\* ------------------------------------------------------------------------

\* the list holds a Parameter whose widget kind is not supported
Unsupported == \E i \in 1..NParams : parameters[i].widget \notin WidgetKinds

\* the caller left the loop of load_gui after it saw the termination flag
CallerLeft == should_quit /\ cpc \in {"join", "done"}

\* C22: when the form meets a Parameter with an unsupported widget kind, the
\* termination flag is set and the caller, blocked in get_input or blocking
\* later, is eventually released and sees the flag.
C22_UnsupportedWidgetReleasesCaller == Unsupported ~> CallerLeft

\* the state the caller is left in: run has returned without a signal
C22_NeverStuckAfterFailedBuild ==
    (Unsupported /\ gpc = "done") => ~Blocked

\* ------------------------------------------------------------------------
\* Claims about the two surfaces on an untouched boolean flag
\* ------------------------------------------------------------------------

\* the boolean flags of the form the user did not touch and the command line
\* accepts as arguments
UntouchedFlags ==
    {i \in 1..NParams :
        /\ parameters[i].widget = "box"
        /\ parameters[i].default.t = "bool"
        /\ i \notin touched
        /\ ArgumentFor(parameters[i]).ok}

\* what the command line hands to the callback for a flag that is absent
CliAbsent(param) == ParseOne(ArgumentFor(param), [present |-> FALSE, toks |-> <<>>]).val

\* C23: for a boolean flag left alone, the form submitted without touching
\* the checkbox and the command line without the flag hand the same value to
\* the callback: the default of the parameter.
C23_SurfacesAgreeOnUntouchedFlag ==
    \A k \in 1..Len(calls_args) : \A i \in UntouchedFlags :
        /\ CliAbsent(parameters[i]) = parameters[i].default
        /\ calls_args[k][parameters[i].name] = parameters[i].default

\* the same for the flags whose default is False
C23_AgreeWhenDefaultFalse ==
    \A k \in 1..Len(calls_args) : \A i \in UntouchedFlags :
        ~parameters[i].default.b =>
            /\ CliAbsent(parameters[i]) = parameters[i].default
            /\ calls_args[k][parameters[i].name] = parameters[i].default

====
